---- MODULE Spec2Model ----
(***************************************************************************)
(* scripts/redefine.py: rename the compiler-builtin symbols of an object   *)
(* file by running `objcopy --redefine-sym old=new ... path` through the   *)
(* shell.                                                                  *)
(*                                                                         *)
(* A Python str is modelled as a sequence of one-character strings, so     *)
(* that the f-string formatting, ' '.join and the word splitting of the    *)
(* shell are computed character by character.                              *)
(***************************************************************************)
EXTENDS Integers, Sequences, FiniteSets, TLC

VARIABLES
    pc,             \* position of the script: start, parsed, args, cmd, waiting, exited
    runs,           \* number of invocations of the script so far
    argv,           \* sys.argv[1:] of the current invocation
    args_path,      \* args.path (line 9)
    objcopy_args,   \* objcopy_args (line 32)
    cmd,            \* cmd (line 34)
    spawned,        \* child processes started by this invocation (Popen calls)
    childDone,      \* the child has terminated
    returncode,     \* return code of the child, -1 while there is none
    exit,           \* exit status of the script, -1 while it is running
    fs,             \* the file system: file name -> [valid, symtab]
    toolInstalled,  \* objcopy is on PATH
    toolFail,       \* the non-zero status objcopy exits with when it fails
    fs0,            \* fs when the current invocation started
    calls,          \* argument vectors objcopy was executed with in this invocation
    toolrc,         \* exit status of objcopy (127: not found), -1 if it was not run
    prev,           \* outcome of the previous invocation
    todo,           \* (order study) table entries not yet applied
    tab,            \* (order study) symbol table being renamed
    tab0            \* (order study) symbol table before any rename

vars == << pc, runs, argv, args_path, objcopy_args, cmd, spawned, childDone,
           returncode, exit, fs, toolInstalled, toolFail, fs0, calls, toolrc,
           prev, todo, tab, tab0 >>

----------------------------------------------------------------------------
(* Bounds *)

MaxPathLen == 3     \* longest path string given on the command line
MaxRuns == 2        \* invocations of the script in a row

----------------------------------------------------------------------------
(* String constants of the script *)

\* line 34: 'objcopy'
Objcopy == <<"o","b","j","c","o","p","y">>

\* line 32: '--redefine-sym'
RedefineSym == <<"-","-","r","e","d","e","f","i","n","e","-","s","y","m">>

\* line 32: the '__rust' of f'...={__rust}{x}'
RustPrefix == <<"_","_","r","u","s","t">>

\* a list in which one entry is the new name of another entry
syms_chain ==
  << <<"_","_","a","d","d","s","f","3">>,
     <<"_","_","r","u","s","t","_","_","a","d","d","s","f","3">>,
     <<"_","_","g","e","s","f","2">>,
     <<"_","_","l","e","s","f","2">>,
     <<"_","_","l","t","s","f","2">>,
     <<"_","_","m","u","l","s","f","3">>,
     <<"_","_","n","e","s","f","2">>,
     <<"_","_","u","n","o","r","d","s","f","2">>,
     <<"_","_","a","d","d","d","f","3">>,
     <<"_","_","l","e","d","f","2">>,
     <<"_","_","l","t","d","f","2">>,
     <<"_","_","m","u","l","d","f","3">>,
     <<"_","_","u","n","o","r","d","d","f","2">>,
     <<"_","_","m","u","l","o","t","i","4">>,
     <<"_","_","m","u","l","t","i","3">>,
     <<"_","_","u","d","i","v","m","o","d","t","i","4">>,
     <<"_","_","u","d","i","v","t","i","3">>,
     <<"_","_","u","m","o","d","t","i","3">> >>

\* a list in which an entry occurs twice
syms_dup ==
  << <<"_","_","a","d","d","s","f","3">>,
     <<"_","_","e","q","s","f","2">>,
     <<"_","_","g","e","s","f","2">>,
     <<"_","_","l","e","s","f","2">>,
     <<"_","_","l","t","s","f","2">>,
     <<"_","_","m","u","l","s","f","3">>,
     <<"_","_","n","e","s","f","2">>,
     <<"_","_","u","n","o","r","d","s","f","2">>,
     <<"_","_","a","d","d","d","f","3">>,
     <<"_","_","l","e","d","f","2">>,
     <<"_","_","l","t","d","f","2">>,
     <<"_","_","m","u","l","d","f","3">>,
     <<"_","_","u","n","o","r","d","d","f","2">>,
     <<"_","_","m","u","l","o","t","i","4">>,
     <<"_","_","m","u","l","t","i","3">>,
     <<"_","_","u","d","i","v","m","o","d","t","i","4">>,
     <<"_","_","u","d","i","v","t","i","3">>,
     <<"_","_","a","d","d","s","f","3">> >>

\* lines 11-30
syms ==
  << <<"_","_","a","d","d","s","f","3">>,
     <<"_","_","e","q","s","f","2">>,
     <<"_","_","g","e","s","f","2">>,
     <<"_","_","l","e","s","f","2">>,
     <<"_","_","l","t","s","f","2">>,
     <<"_","_","m","u","l","s","f","3">>,
     <<"_","_","n","e","s","f","2">>,
     <<"_","_","u","n","o","r","d","s","f","2">>,
     <<"_","_","a","d","d","d","f","3">>,
     <<"_","_","l","e","d","f","2">>,
     <<"_","_","l","t","d","f","2">>,
     <<"_","_","m","u","l","d","f","3">>,
     <<"_","_","u","n","o","r","d","d","f","2">>,
     <<"_","_","m","u","l","o","t","i","4">>,
     <<"_","_","m","u","l","t","i","3">>,
     <<"_","_","u","d","i","v","m","o","d","t","i","4">>,
     <<"_","_","u","d","i","v","t","i","3">>,
     <<"_","_","u","m","o","d","t","i","3">> >>

\* a format that gives the first symbol the name of the second
Flag_chain(x) ==
    RedefineSym \o <<" ">> \o x \o <<"=">>
        \o (IF x = <<"_","_","a","d","d","s","f","3">>
            THEN <<"_","_","e","q","s","f","2">>
            ELSE RustPrefix \o x)

\* line 32: f'--redefine-sym {x}=__rust{x}'
Flag(x) == RedefineSym \o <<" ">> \o x \o <<"=">> \o RustPrefix \o x

\* line 32: [f'...' for x in syms]
ObjcopyArgs == [i \in 1..Len(syms) |-> Flag(syms[i])]

\* a command with the path before the flags
Cmd_pathfirst(args, path) == <<Objcopy, path>> \o args

\* line 34: ['objcopy'] + objcopy_args + [args.path]
Cmd(args, path) == <<Objcopy>> \o args \o <<path>>

\* line 36: ' '.join(cmd)
RECURSIVE Join(_, _)
Join(list, n) ==
    IF n = 0 THEN <<>>
    ELSE IF n = 1 THEN list[1]
    ELSE Join(list, n - 1) \o <<" ">> \o list[n]

----------------------------------------------------------------------------
(* argparse: parser.parse_args() of a parser with the positional `path`    *)
(* and the -h/--help option ArgumentParser() adds by itself (lines 6-9)    *)

DashH == <<"-","h">>
DashDashHelp == <<"-","-","h","e","l","p">>
DashDash == <<"-","-">>
DashX == <<"-","x">>

\* argparse takes a string of more than one character that starts with the
\* prefix character '-' for an option
IsOptionString(t) == Len(t) > 1 /\ t[1] = "-"

\* One pass over the argument strings. dd: '--' was seen, pos: the positional
\* strings so far, extras: number of strings no action takes.
\* -h/--help prints the help and exits as soon as it is met; the errors
\* (missing path, unrecognized arguments) are raised after the pass.
RECURSIVE ParseScan(_, _, _, _, _)
ParseScan(a, i, dd, pos, extras) ==
    IF i > Len(a) THEN
        IF Len(pos) = 0 THEN [status |-> "error", path |-> <<>>]
        ELSE IF Len(pos) > 1 \/ extras > 0 THEN [status |-> "error", path |-> <<>>]
        ELSE [status |-> "ok", path |-> pos[1]]
    ELSE IF ~dd /\ a[i] = DashDash THEN ParseScan(a, i + 1, TRUE, pos, extras)
    ELSE IF ~dd /\ IsOptionString(a[i]) THEN
        IF a[i] \in {DashH, DashDashHelp}
        THEN [status |-> "help", path |-> <<>>]
        ELSE ParseScan(a, i + 1, dd, pos, extras + 1)
    ELSE ParseScan(a, i + 1, dd, Append(pos, a[i]), extras)

\* a parser whose `path` is optional (nargs='?', default '')
parse_args_optional(a) ==
    LET r == ParseScan(a, 1, FALSE, <<>>, 0) IN
    IF r.status = "error" THEN [status |-> "ok", path |-> <<>>] ELSE r

\* line 9: args = parser.parse_args()
parse_args(a) == ParseScan(a, 1, FALSE, <<>>, 0)

\* exit status of parser.error() and of the help action
ArgparseExit(status) == IF status = "help" THEN 0 ELSE 2

----------------------------------------------------------------------------
(* objcopy, the external tool: what it does with the argument vector it    *)
(* is executed with                                                        *)

\* position of the first c in s, 0 if there is none
RECURSIVE IndexFrom(_, _, _)
IndexFrom(s, c, i) ==
    IF i > Len(s) THEN 0
    ELSE IF s[i] = c THEN i
    ELSE IndexFrom(s, c, i + 1)

\* Command line of objcopy: `--redefine-sym <old>=<new>` options and file
\* names. Other options are not part of the command the script builds.
RECURSIVE ObjcopyScan(_, _, _, _)
ObjcopyScan(w, i, redefs, files) ==
    IF i > Len(w) THEN [bad |-> FALSE, redefs |-> redefs, files |-> files]
    ELSE IF w[i] = RedefineSym THEN
        IF i = Len(w) THEN [bad |-> TRUE, redefs |-> redefs, files |-> files]
        ELSE LET eq == IndexFrom(w[i + 1], "=", 1) IN
             IF eq = 0 THEN [bad |-> TRUE, redefs |-> redefs, files |-> files]
             ELSE ObjcopyScan(w, i + 2,
                      Append(redefs, [old |-> SubSeq(w[i + 1], 1, eq - 1),
                                      new |-> SubSeq(w[i + 1], eq + 1, Len(w[i + 1]))]),
                      files)
    ELSE IF w[i][1] = "-" THEN [bad |-> TRUE, redefs |-> redefs, files |-> files]
    ELSE ObjcopyScan(w, i + 1, redefs, Append(files, w[i]))

\* objcopy refuses a symbol redefined twice and a name that is the target of
\* two redefinitions
RedefsClash(redefs) ==
    \E i, j \in 1..Len(redefs) :
        i < j /\ (redefs[i].old = redefs[j].old \/ redefs[i].new = redefs[j].new)

\* the name a symbol called n has after the redefinitions
NewName(redefs, n) ==
    IF \E i \in 1..Len(redefs) : redefs[i].old = n
    THEN redefs[CHOOSE i \in 1..Len(redefs) : redefs[i].old = n].new
    ELSE n

\* A symbol table is a set of entries [name, def]; def stands for the
\* address, size and content of the symbol. Only names change.
Rename(redefs, symtab) ==
    {[name |-> NewName(redefs, e.name), def |-> e.def] : e \in symtab}

\* objcopy [options] in-file [out-file]: status and file system afterwards.
\* fail is the non-zero status the tool reports a failure with.
ObjcopyMain(w, files, fail) ==
    LET a == ObjcopyScan(w, 2, <<>>, <<>>)
        in == a.files[1]
        out == a.files[Len(a.files)]
    IN  IF a.bad \/ Len(a.files) \notin {1, 2} THEN [status |-> fail, fs |-> files]
        ELSE IF RedefsClash(a.redefs) THEN [status |-> fail, fs |-> files]
        ELSE IF in \notin DOMAIN files THEN [status |-> fail, fs |-> files]
        ELSE IF ~files[in].valid THEN [status |-> fail, fs |-> files]
        ELSE [status |-> 0,
              fs |-> [n \in DOMAIN files \cup {out} |->
                        IF n = out
                        THEN [valid |-> TRUE, symtab |-> Rename(a.redefs, files[in].symtab)]
                        ELSE files[n]]]

----------------------------------------------------------------------------
(* /bin/sh -c <string>: subprocess.run(..., shell=True) (line 36)          *)

Colon == <<":">>

\* the fields of s between the occurrences of sep
Split(s, sep) ==
    LET at == SelectSeq([i \in 1..Len(s) |-> i], LAMBDA i : s[i] = sep)
        cuts == <<0>> \o at \o <<Len(s) + 1>>
    IN  [k \in 1..(Len(cuts) - 1) |-> SubSeq(s, cuts[k] + 1, cuts[k + 1] - 1)]

\* the words of a simple command: blanks separate words
Words(s) == SelectSeq(Split(s, " "), LAMBDA w : w # <<>>)

\* the simple commands of a list: ';' ends a command
Commands(s) == LET f == Split(s, ";") IN [i \in 1..Len(f) |-> Words(f[i])]

\* an empty command before a ';' is a syntax error
SyntaxError(cmds) == \E i \in 1..(Len(cmds) - 1) : cmds[i] = <<>>

\* Run the commands one after another; the status is that of the last one
\* run. st = [status, fs, calls, toolrc], env = [installed, fail].
\* objcopy is looked up on PATH (127 if it is not there), `:` is the null
\* utility of the shell, and no other command exists.
RECURSIVE RunList(_, _, _, _)
RunList(cmds, i, st, env) ==
    IF i > Len(cmds) THEN st
    ELSE IF cmds[i] = <<>> THEN RunList(cmds, i + 1, st, env)
    ELSE IF cmds[i][1] = Objcopy THEN
        IF env.installed
        THEN LET r == ObjcopyMain(cmds[i], st.fs, env.fail) IN
             RunList(cmds, i + 1,
                     [status |-> r.status, fs |-> r.fs,
                      calls |-> Append(st.calls, cmds[i]), toolrc |-> r.status],
                     env)
        ELSE RunList(cmds, i + 1, [st EXCEPT !.status = 127, !.toolrc = 127], env)
    ELSE IF cmds[i][1] = Colon
        THEN RunList(cmds, i + 1, [st EXCEPT !.status = 0], env)
    ELSE RunList(cmds, i + 1, [st EXCEPT !.status = 127], env)

\* sh -c s: nothing runs on a syntax error (status 2)
ShellRun(s, files, env) ==
    LET cmds == Commands(s)
        st0 == [status |-> 0, fs |-> files, calls |-> <<>>, toolrc |-> -1]
    IN  IF SyntaxError(cmds) THEN [st0 EXCEPT !.status = 2]
        ELSE RunList(cmds, 1, st0, env)

\* a script that hands the return code of the child on
ExitStatus_propagate(rc) == rc

\* line 36: check=True raises CalledProcessError on a non-zero return code;
\* the exception is not caught and python exits with status 1
ExitStatus(rc) == IF rc = 0 THEN 0 ELSE 1

\* a script that starts the child and does not wait for it
CanReturn_nowait(done) == TRUE

\* line 36: subprocess.run returns when the child has terminated
CanReturn(done) == done

----------------------------------------------------------------------------
(* The inputs: command lines, object files, the environment                *)

\* characters of the paths given on the command line
PathChars == {"a", " ", ";", ":"}

Paths == UNION {[1..k -> PathChars] : k \in 0..MaxPathLen}

\* the command lines: every path alone, and the other shapes of a command
\* line with the paths of at most one character
Argvs ==
    {<<>>, <<DashH>>, <<DashX>>}
    \cup {<<p>> : p \in Paths}
    \cup UNION {{<<p, p>>, <<p, DashH>>, <<DashX, p>>, <<DashDash, p>>} :
                  p \in {q \in Paths : Len(q) <= 1}}

Main == <<"m","a","i","n">>

\* an object file that defines every symbol of the table, and main
SymtabAll ==
    {[name |-> syms[i], def |-> i] : i \in 1..Len(syms)}
    \cup {[name |-> Main, def |-> 0]}

\* an object file that defines none of them
SymtabNone == {[name |-> Main, def |-> 0]}

\* an object file that defines some of them, and a __rust__addsf3 of its own
SymtabSome ==
    {[name |-> syms[1], def |-> 1], [name |-> syms[2], def |-> 2],
     [name |-> syms[18], def |-> 18], [name |-> Main, def |-> 0],
     [name |-> RustPrefix \o syms[1], def |-> 19]}

FileA == <<"a">>
FileAA == <<"a", " ", "a">>

NotAnObject == [valid |-> FALSE, symtab |-> {}]

ObjectFile(t) == [valid |-> TRUE, symtab |-> t]

\* the files `a` and `a a`, each present or not
FileSystems ==
    {[n \in {} |-> NotAnObject]}
    \cup {[n \in {FileA} |-> f] :
            f \in {NotAnObject, ObjectFile(SymtabAll), ObjectFile(SymtabNone),
                   ObjectFile(SymtabSome)}}
    \cup {[n \in {FileA, FileAA} |-> IF n = FileA THEN f ELSE ObjectFile(SymtabAll)] :
            f \in {ObjectFile(SymtabAll), ObjectFile(SymtabNone)}}
    \cup {[n \in {FileAA} |-> ObjectFile(SymtabAll)]}

\* the tool is opaque to the script: a failure is any non-zero status
ToolFailStatuses == {1, 2}

NoRun == [valid |-> FALSE, path |-> <<>>, cmd |-> <<>>, exit |-> -1,
          spawned |-> 0, toolrc |-> -1, fs0 |-> [n \in {} |-> NotAnObject],
          fs |-> [n \in {} |-> NotAnObject]]

----------------------------------------------------------------------------
(* The script, statement by statement *)

Init ==
    /\ pc = "start"
    /\ runs = 1
    /\ argv \in Argvs
    /\ args_path = <<>>
    /\ objcopy_args = <<>>
    /\ cmd = <<>>
    /\ spawned = 0
    /\ childDone = FALSE
    /\ returncode = -1
    /\ exit = -1
    /\ fs \in FileSystems
    /\ toolInstalled \in BOOLEAN
    /\ toolFail \in ToolFailStatuses
    /\ fs0 = fs
    /\ calls = <<>>
    /\ toolrc = -1
    /\ prev = NoRun
    /\ todo = {}
    /\ tab = {}
    /\ tab0 = {}

\* lines 6-9: parse the command line; argparse exits on an error and on -h
ParseArgs ==
    /\ pc = "start"
    /\ LET r == parse_args(argv) IN
         IF r.status = "ok"
         THEN /\ pc' = "parsed"
              /\ args_path' = r.path
              /\ exit' = exit
         ELSE /\ pc' = "exited"
              /\ args_path' = args_path
              /\ exit' = ArgparseExit(r.status)
    /\ UNCHANGED << runs, argv, objcopy_args, cmd, spawned, childDone, returncode,
                    fs, toolInstalled, toolFail, fs0, calls, toolrc, prev, todo, tab, tab0 >>

\* lines 11-32: the symbol list and one flag per symbol
BuildArgs ==
    /\ pc = "parsed"
    /\ objcopy_args' = ObjcopyArgs
    /\ pc' = "args"
    /\ UNCHANGED << runs, argv, args_path, cmd, spawned, childDone, returncode, exit,
                    fs, toolInstalled, toolFail, fs0, calls, toolrc, prev, todo, tab, tab0 >>

\* line 34: the command
BuildCmd ==
    /\ pc = "args"
    /\ cmd' = Cmd(objcopy_args, args_path)
    /\ pc' = "cmd"
    /\ UNCHANGED << runs, argv, args_path, objcopy_args, spawned, childDone,
                    returncode, exit, fs, toolInstalled, toolFail, fs0, calls, toolrc, prev,
                    todo, tab, tab0 >>

\* line 36: subprocess.run starts the shell on the joined command
Spawn ==
    /\ pc = "cmd"
    /\ spawned' = spawned + 1
    /\ childDone' = FALSE
    /\ pc' = "waiting"
    /\ UNCHANGED << runs, argv, args_path, objcopy_args, cmd, returncode, exit,
                    fs, toolInstalled, toolFail, fs0, calls, toolrc, prev, todo, tab, tab0 >>

\* the child: the shell runs the command string and terminates
ChildRun ==
    /\ pc = "waiting"
    /\ ~childDone
    /\ LET r == ShellRun(Join(cmd, Len(cmd)), fs,
                        [installed |-> toolInstalled, fail |-> toolFail]) IN
         /\ fs' = r.fs
         /\ calls' = r.calls
         /\ toolrc' = r.toolrc
         /\ returncode' = r.status
    /\ childDone' = TRUE
    /\ UNCHANGED << pc, runs, argv, args_path, objcopy_args, cmd, spawned, exit,
                    toolInstalled, toolFail, fs0, prev, todo, tab, tab0 >>

\* line 36: subprocess.run returns or raises; the script ends
Wait ==
    /\ pc = "waiting"
    /\ CanReturn(childDone)
    /\ exit' = ExitStatus(returncode)
    /\ pc' = "exited"
    /\ UNCHANGED << runs, argv, args_path, objcopy_args, cmd, spawned, childDone,
                    returncode, fs, toolInstalled, toolFail, fs0, calls, toolrc, prev,
                    todo, tab, tab0 >>

\* the script is invoked again with the same command line
Rerun ==
    /\ pc = "exited"
    /\ runs < MaxRuns
    /\ prev' = [valid |-> TRUE, path |-> args_path, cmd |-> cmd, exit |-> exit,
                spawned |-> spawned, toolrc |-> toolrc, fs0 |-> fs0, fs |-> fs]
    /\ runs' = runs + 1
    /\ pc' = "start"
    /\ args_path' = <<>>
    /\ objcopy_args' = <<>>
    /\ cmd' = <<>>
    /\ spawned' = 0
    /\ childDone' = FALSE
    /\ returncode' = -1
    /\ exit' = -1
    /\ fs0' = fs
    /\ calls' = <<>>
    /\ toolrc' = -1
    /\ UNCHANGED << argv, fs, toolInstalled, toolFail, todo, tab, tab0 >>

Next ==
    \/ ParseArgs
    \/ BuildArgs
    \/ BuildCmd
    \/ Spawn
    \/ ChildRun
    \/ Wait
    \/ Rerun

Spec == Init /\ [][Next]_vars

----------------------------------------------------------------------------
(* Exit status *)

\* the script has run to its end after starting its child
Finished == pc = "exited" /\ spawned > 0

\* C1 as stated: the exit status of the script equals the exit status of
\* the tool, 0 for 0 and c for every non-zero c.
C1_ExitStatusEqualsToolStatus ==
    (Finished /\ toolrc # -1) => exit = toolrc

\* C1 as amended: the script exits with 0 exactly when the child it started
\* (the shell running the command) returns 0, and with 1, whatever the
\* code is, when the child returns a non-zero code.
C1_ExitStatusIsZeroOrOne ==
    Finished =>
        /\ returncode = 0 => exit = 0
        /\ returncode # 0 => exit = 1

\* the tool failed with status 2 and the script exited with 1
C1_Witness == Finished /\ toolrc = 2 /\ returncode = 2 /\ exit = 1

\* C2: whenever the tool cannot be executed or exits with a non-zero status,
\* the script ends with a non-zero status.
C2_ToolFailureFailsScript ==
    (Finished /\ toolrc \notin {-1, 0}) => exit # 0

----------------------------------------------------------------------------
(* Argument parsing and the child process *)

\* The command line, read without running the parser: the position of the
\* first '--' (0: none), the option strings before it, the other strings.
DashDashAt(a) ==
    IF \E i \in 1..Len(a) : a[i] = DashDash
    THEN CHOOSE i \in 1..Len(a) : a[i] = DashDash /\ \A j \in 1..(i - 1) : a[j] # DashDash
    ELSE 0

OptionsAt(a) ==
    {i \in 1..Len(a) : (DashDashAt(a) = 0 \/ i < DashDashAt(a)) /\ IsOptionString(a[i])}

PositionalsAt(a) == {i \in 1..Len(a) : i # DashDashAt(a) /\ i \notin OptionsAt(a)}

HelpAsked(a) == \E i \in OptionsAt(a) : a[i] \in {DashH, DashDashHelp}

PathMissing(a) == PositionalsAt(a) = {}

Malformed(a) ==
    \/ Cardinality(PositionalsAt(a)) > 1
    \/ \E i \in OptionsAt(a) : a[i] \notin {DashH, DashDashHelp}

WellFormed(a) == ~PathMissing(a) /\ ~Malformed(a) /\ ~HelpAsked(a)

C4_ExactlyOneChild ==
    /\ spawned <= 1
    /\ pc \in {"parsed", "args", "cmd"} => spawned = 0
    /\ pc = "waiting" => spawned = 1
    /\ (pc = "exited" /\ WellFormed(argv)) => (spawned = 1 /\ childDone)

\* a run has ended in failure after its one child failed
C4_Witness ==
    pc = "exited" /\ WellFormed(argv) /\ spawned = 1 /\ childDone /\ exit = 1

----------------------------------------------------------------------------
(* The command *)

AddsfName == <<"_","_","a","d","d","s","f","3">>

RustAddsfName == <<"_","_","r","u","s","t","_","_","a","d","d","s","f","3">>

FirstFlag ==
    <<"-","-","r","e","d","e","f","i","n","e","-","s","y","m"," ","_","_","a",
     "d","d","s","f","3","=","_","_","r","u","s","t","_","_","a","d","d","s","f","3">>

LastFlag ==
    <<"-","-","r","e","d","e","f","i","n","e","-","s","y","m"," ","_","_","u",
     "m","o","d","t","i","3","=","_","_","r","u","s","t","_","_","u","m","o","d","t","i","3">>

\* C5: the command is `objcopy`, then exactly 18 `--redefine-sym old=new`
\* flags, one per entry of the list and in its order, from __addsf3 to
\* __umodti3, then the path; a second run with the same path builds the
\* same command.
C5_CommandIsTableThenPath ==
    cmd # <<>> =>
        /\ Len(cmd) = 20
        /\ cmd[1] = Objcopy
        /\ cmd[20] = args_path
        /\ cmd[2] = FirstFlag
        /\ cmd[19] = LastFlag
        /\ \A i \in 1..18 :
              Split(cmd[i + 1], " ")
                 = <<RedefineSym, syms[i] \o <<"=">> \o RustPrefix \o syms[i]>>
        /\ (prev.valid /\ prev.cmd # <<>> /\ prev.path = args_path) => cmd = prev.cmd

\* the second run with a path has built its command
C5_Witness ==
    /\ pc = "cmd" /\ Len(cmd) = 20 /\ cmd[20] = <<"a">>
    /\ prev.valid /\ prev.cmd = cmd

\* the pairs (old, new) written in a list of flags
TableOf(flags) ==
    [i \in 1..Len(flags) |->
        LET pair == Split(Split(flags[i], " ")[2], "=")
        IN  [old |-> pair[1], new |-> pair[2]]]

\* C9: the 18 original names are pairwise distinct, every new name is
\* `__rust` followed by the original name (__addsf3 becomes __rust__addsf3),
\* the new names are pairwise distinct, and the table stays what it is: the
\* flags of the command, in this run and in the next, are the flags built.
C9_TableInvariants ==
    objcopy_args # <<>> =>
        LET t == TableOf(objcopy_args) IN
        /\ Len(t) = 18
        /\ \A i \in 1..18 : t[i].old = syms[i] /\ t[i].new = RustPrefix \o t[i].old
        /\ \A i, j \in 1..18 : i # j => (t[i].old # t[j].old /\ t[i].new # t[j].new)
        /\ t[1] = [old |-> AddsfName, new |-> RustAddsfName]
        /\ cmd # <<>> => SubSeq(cmd, 2, 19) = objcopy_args
        /\ (prev.valid /\ prev.cmd # <<>>) => SubSeq(prev.cmd, 2, 19) = objcopy_args

\* the flags are built, in a run that follows another one
C9_Witness ==
    /\ pc = "waiting" /\ Len(objcopy_args) = 18 /\ prev.valid /\ prev.cmd # <<>>
    /\ TableOf(objcopy_args)[18].new = RustPrefix \o syms[18]

\* the argument vector of the tool when the arguments are passed one by one
ExpectedArgv(path) ==
    <<Objcopy>>
    \o [k \in 1..36 |->
          IF k % 2 = 1 THEN RedefineSym
          ELSE syms[k \div 2] \o <<"=">> \o RustPrefix \o syms[k \div 2]]
    \o <<path>>

\* C8: for every path, the tool is executed with the 18 flag pairs and then
\* the path, unchanged, as its one last argument.
C8_PathIsOneArgument ==
    (Finished /\ toolInstalled) => calls = <<ExpectedArgv(args_path)>>

----------------------------------------------------------------------------
(* The effect on the object file *)

Originals == {syms[i] : i \in 1..Len(syms)}

\* every original name of t0 is gone from t1, its definition is in t1 under
\* the new name, and the other symbols of t0 are in t1 as they were
Renamed(t0, t1) ==
    /\ \A e \in t1 : e.name \notin Originals
    /\ \A e \in t0 : e.name \in Originals =>
            [name |-> RustPrefix \o e.name, def |-> e.def] \in t1
    /\ \A e \in t0 : e.name \notin Originals => e \in t1
    /\ Cardinality(t1) = Cardinality(t0)

HasAll(t) == \A n \in Originals : \E e \in t : e.name = n

\* C6: after a successful run on an object file that defines all 18 names,
\* the file has none of them, has each new name with the definition the
\* original had, and has its other symbols untouched.
C6_AllSymbolsRenamed ==
    (/\ Finished
     /\ exit = 0
     /\ args_path \in DOMAIN fs0
     /\ fs0[args_path].valid
     /\ HasAll(fs0[args_path].symtab))
    => Renamed(fs0[args_path].symtab, fs[args_path].symtab)

\* C7: a second run after a successful one succeeds and leaves every symbol
\* table as the first run left it; a file the tool has written has no
\* original name in it.
C7_SecondRunChangesNothing ==
    /\ (Finished /\ prev.valid /\ prev.spawned = 1 /\ prev.exit = 0) =>
            (exit = 0 /\ fs = prev.fs)
    /\ (Finished /\ toolrc = 0) =>
            \A e \in fs[calls[1][Len(calls[1])]].symtab : e.name \notin Originals

\* the first run has renamed symbols and the second run has ended
C7_Witness ==
    /\ Finished /\ prev.valid /\ prev.spawned = 1 /\ prev.exit = 0 /\ prev.toolrc = 0
    /\ prev.fs # prev.fs0
    /\ exit = 0 /\ toolrc = 0 /\ fs = prev.fs

----------------------------------------------------------------------------
(* The order of the renames *)

\* the redefinitions objcopy reads from the command of the script
TableRedefs ==
    ObjcopyScan(Words(Join(Cmd(ObjcopyArgs, FileA), Len(ObjcopyArgs) + 2)),
                2, <<>>, <<>>).redefs

\* one redefinition applied on its own
RenameOne(r, symtab) == Rename(<<r>>, symtab)

\* the redefinitions 1..n applied one after another, in the order of the list
RECURSIVE InTableOrder(_, _)
InTableOrder(n, symtab) ==
    IF n = 0 THEN symtab
    ELSE RenameOne(TableRedefs[n], InTableOrder(n - 1, symtab))

InitOrder ==
    /\ pc = "order"
    /\ runs = 0
    /\ argv = <<>>
    /\ args_path = <<>>
    /\ objcopy_args = <<>>
    /\ cmd = <<>>
    /\ spawned = 0
    /\ childDone = FALSE
    /\ returncode = -1
    /\ exit = -1
    /\ fs = [n \in {} |-> NotAnObject]
    /\ toolInstalled = TRUE
    /\ toolFail = 1
    /\ fs0 = fs
    /\ calls = <<>>
    /\ toolrc = -1
    /\ prev = NoRun
    /\ todo = 1..Len(TableRedefs)
    /\ tab0 \in {SymtabAll, SymtabSome}
    /\ tab = tab0

\* apply one of the redefinitions not applied yet
ApplyOne ==
    /\ pc = "order"
    /\ \E i \in todo :
         /\ tab' = RenameOne(TableRedefs[i], tab)
         /\ todo' = todo \ {i}
    /\ UNCHANGED << pc, runs, argv, args_path, objcopy_args, cmd, spawned, childDone,
                    returncode, exit, fs, toolInstalled, toolFail, fs0, calls, toolrc,
                    prev, tab0 >>

NextOrder == ApplyOne

SpecOrder == InitOrder /\ [][NextOrder]_vars

\* C10: applied one after another in any order, the 18 renames give the
\* symbol table they give in the order of the list.
C10_OrderIndependent ==
    (pc = "order" /\ todo = {}) => tab = InTableOrder(Len(TableRedefs), tab0)

\* all the renames have been applied to a table that had symbols to rename
C10_Witness ==
    /\ pc = "order" /\ todo = {} /\ tab # tab0
    /\ [name |-> RustAddsfName, def |-> 1] \in tab

====
